---- MODULE Spec2Model ----
(***************************************************************************)
(* Lucerna: the two ChatBot components (the timer-based one of             *)
(* src/src/components/ChatBot.tsx and the backend-assisted one of          *)
(* FINAL-PROJECT/src/components/ChatBot.tsx with src/src/lib/gemini.ts).   *)
(*                                                                         *)
(* One step of the model is one JavaScript task (an event handler, a       *)
(* timer callback, the continuation of an await): tasks run to completion, *)
(* and the React state updates a task enqueues are applied in order before *)
(* the next task of the component reads the state.  A handler reads the    *)
(* state of the render it was created in, so a timer callback or an await  *)
(* continuation carries the lastQuestion of the render that sent the       *)
(* message.  Strings are TLA+ strings; template texts are shortened.       *)
(*                                                                         *)
(* The streak of daily check-ins is kept by updateStreak, once in the      *)
(* localStorage api of the client (src/unnamed/part_003), where it runs in *)
(* one task, and once in the server (src/unnamed/part_009), where the      *)
(* check-in route awaits the key-value store between its read and its      *)
(* write; there one step is one call performed by the store.               *)
(***************************************************************************)
EXTENDS Integers, Sequences, FiniteSets, TLC

----------------------------------------------------------------------------
(* Bounds *)

\* total number of messages one run sends
MaxSends == 2

----------------------------------------------------------------------------
(* JavaScript string primitives *)

UpperChars == "ABCDEFGHIJKLMNOPQRSTUVWXYZ"
LowerChars == "abcdefghijklmnopqrstuvwxyz"

\* one character of String.prototype.toLowerCase
LowerChar(c) ==
  IF \E i \in 1..Len(UpperChars) : SubSeq(UpperChars, i, i) = c
    THEN LET i == CHOOSE j \in 1..Len(UpperChars) : SubSeq(UpperChars, j, j) = c
         IN  SubSeq(LowerChars, i, i)
    ELSE c

RECURSIVE toLowerCase(_)
toLowerCase(s) ==
  IF Len(s) = 0 THEN ""
  ELSE LowerChar(SubSeq(s, 1, 1)) \o toLowerCase(SubSeq(s, 2, Len(s)))

\* String.prototype.includes
includes(s, k) ==
  \E i \in 1..(Len(s) - Len(k) + 1) : SubSeq(s, i, i + Len(k) - 1) = k

\* Array.prototype.some(w => s.includes(w)) over a list of words
some(words, s) == \E j \in 1..Len(words) : includes(s, words[j])

RECURSIVE trimStart(_)
trimStart(s) ==
  IF Len(s) > 0 /\ SubSeq(s, 1, 1) = " " THEN trimStart(SubSeq(s, 2, Len(s))) ELSE s

RECURSIVE trimEnd(_)
trimEnd(s) ==
  IF Len(s) > 0 /\ SubSeq(s, Len(s), Len(s)) = " "
    THEN trimEnd(SubSeq(s, 1, Len(s) - 1)) ELSE s

\* String.prototype.trim
trim(s) == trimEnd(trimStart(s))

\* an absent optional prop
Undefined == "undefined"

\* JavaScript truthiness of an optional string
Truthy(v) == v # Undefined /\ v # ""

----------------------------------------------------------------------------
(* Tables of the timer-based ChatBot *)

\* values the component ever assigns to lastQuestion are computed by the
\* greeting effect; QuestionType is the declared type
QuestionType == {"breakfast", "lunch", "dinner", "mood", "none"}

responses ==
  [ breakfast   |-> << "Great! A good breakfast fuels your day.",
                       "Awesome! Starting the day with food" >>,
    nobreakfast |-> << "Oh honey, why did you skip breakfast?",
                       "Is there a reason you didn't eat, my dear?" >>,
    lunch       |-> << "Wonderful! Taking time to eat is an act of self-care.",
                       "That's great! Proper nutrition helps" >>,
    nolunch     |-> << "Why didn't you have lunch, sweetie?",
                       "Oh no! Is everything okay? Try to take a break" >>,
    dinner      |-> << "Perfect! Ending the day with a good meal.",
                       "That's wonderful! A good dinner can help you unwind" >>,
    nodinner    |-> << "Why haven't you had dinner yet?",
                       "Is there a reason you skipped dinner?" >>,
    funfact     |-> << "Fun fact: Smiling", "Did you know? Laughing",
                       "Fun fact: Your brain", "Did you know? Chocolate",
                       "Fun fact: Hugging", "Did you know? Listening to music",
                       "Fun fact: Plants" >>,
    yes         |-> << "That's wonderful! I'm so glad to hear that!",
                       "Great! Keep up the good self-care!" >>,
    no          |-> << "That's okay! What can I help you with?",
                       "No worries! Would you like to talk about anything?" >>,
    sad         |-> << "I'm sorry you're feeling down, honey.",
                       "Your feelings are valid, my dear." >>,
    happy       |-> << "That's wonderful! I'm so glad you're feeling good!",
                       "Awesome! It's great to hear you're in a positive space." >>,
    stressed    |-> << "Stress can be tough.",
                       "Let's take it one step at a time." >>,
    anxious     |-> << "Anxiety is challenging, but you're not alone.",
                       "I hear you. Sometimes when we're anxious" >>,
    default     |-> << "I'm here to listen, honey.",
                       "Thank you for sharing.",
                       "I appreciate you opening up." >>,
    crisis      |-> << "I'm really concerned about you.",
                       "I hear that you're going through an incredibly difficult time." >> ]

crisisKeywords ==
  << "suicide", "suicidal", "kill myself", "end my life", "want to die",
     "die", "death", "dying", "dead", "harm myself", "hurt myself",
     "no reason to live", "better off dead", "end it all" >>

hasCrisisKeyword(lowercaseMessage) == some(crisisKeywords, lowercaseMessage)

affirmativeTokens == << "yes", "yeah", "yep", "sure" >>
negativeTokens    == << "no", "nah", "nope" >>

\* the chain of "General keyword matching" testing stress before sadness
generalKeywordStressFirst(lowercaseMessage) ==
  IF includes(lowercaseMessage, "fun fact") \/ includes(lowercaseMessage, "fact")
       \/ includes(lowercaseMessage, "tell me something") THEN "funfact"
  ELSE IF includes(lowercaseMessage, "stress") \/ includes(lowercaseMessage, "overwhelm")
       THEN "stressed"
  ELSE IF includes(lowercaseMessage, "sad") \/ includes(lowercaseMessage, "down")
       \/ includes(lowercaseMessage, "depressed") THEN "sad"
  ELSE IF includes(lowercaseMessage, "happy") \/ includes(lowercaseMessage, "good")
       \/ includes(lowercaseMessage, "great") THEN "happy"
  ELSE IF includes(lowercaseMessage, "anxious") \/ includes(lowercaseMessage, "anxiety")
       \/ includes(lowercaseMessage, "worry") THEN "anxious"
  ELSE "default"

\* the if / else-if chain of "General keyword matching"
generalKeyword(lowercaseMessage) ==
  IF includes(lowercaseMessage, "fun fact") \/ includes(lowercaseMessage, "fact")
       \/ includes(lowercaseMessage, "tell me something") THEN "funfact"
  ELSE IF includes(lowercaseMessage, "sad") \/ includes(lowercaseMessage, "down")
       \/ includes(lowercaseMessage, "depressed") THEN "sad"
  ELSE IF includes(lowercaseMessage, "happy") \/ includes(lowercaseMessage, "good")
       \/ includes(lowercaseMessage, "great") THEN "happy"
  ELSE IF includes(lowercaseMessage, "stress") \/ includes(lowercaseMessage, "overwhelm")
       THEN "stressed"
  ELSE IF includes(lowercaseMessage, "anxious") \/ includes(lowercaseMessage, "anxiety")
       \/ includes(lowercaseMessage, "worry") THEN "anxious"
  ELSE "default"

\* a reply computation that calls onEmergency() whatever it looks up
OutcomeCallsEmergency(table, key, emergency, reset) ==
  [ key |-> key, emergency |-> TRUE,
    reset |-> reset /\ key \in DOMAIN table,
    throws |-> key \notin DOMAIN table ]

\* What a reply computation does besides picking the random index:
\*   key        the key looked up in the responses table
\*   emergency  whether onEmergency() was called
\*   reset      whether setLastQuestion('none') was called
\*   throws     whether the lookup responses[key] is undefined, so that
\*              reading its length throws a TypeError before anything else
Outcome(table, key, emergency, reset) ==
  [ key |-> key, emergency |-> emergency,
    reset |-> reset /\ key \in DOMAIN table,
    throws |-> key \notin DOMAIN table ]

\* getResponse with the yes/no resolution moved before the crisis check
getResponseYesNoFirst(userMessage, lq) ==
  LET lowercaseMessage == toLowerCase(userMessage) IN
  IF lq # "none" /\ some(affirmativeTokens, lowercaseMessage)
    THEN Outcome(responses, lq, FALSE, TRUE)
  ELSE IF lq # "none" /\ some(negativeTokens, lowercaseMessage)
    THEN Outcome(responses, "no" \o lq, FALSE, TRUE)
  ELSE IF hasCrisisKeyword(lowercaseMessage)
    THEN Outcome(responses, "crisis", TRUE, FALSE)
  ELSE Outcome(responses, generalKeyword(lowercaseMessage), FALSE, FALSE)

\* getResponse testing the negative tokens before the affirmative ones
getResponseNegativeFirst(userMessage, lq) ==
  LET lowercaseMessage == toLowerCase(userMessage) IN
  IF hasCrisisKeyword(lowercaseMessage)
    THEN Outcome(responses, "crisis", TRUE, FALSE)
  ELSE IF lq # "none" /\ some(negativeTokens, lowercaseMessage)
    THEN Outcome(responses, "no" \o lq, FALSE, TRUE)
  ELSE IF lq # "none" /\ some(affirmativeTokens, lowercaseMessage)
    THEN Outcome(responses, lq, FALSE, TRUE)
  ELSE Outcome(responses, generalKeyword(lowercaseMessage), FALSE, FALSE)

\* getResponse answering a negative token from the general set responses.no
getResponseGeneralNo(userMessage, lq) ==
  LET lowercaseMessage == toLowerCase(userMessage) IN
  IF hasCrisisKeyword(lowercaseMessage)
    THEN Outcome(responses, "crisis", TRUE, FALSE)
  ELSE IF lq # "none" /\ some(affirmativeTokens, lowercaseMessage)
    THEN Outcome(responses, lq, FALSE, TRUE)
  ELSE IF lq # "none" /\ some(negativeTokens, lowercaseMessage)
    THEN Outcome(responses, "no", FALSE, TRUE)
  ELSE Outcome(responses, generalKeyword(lowercaseMessage), FALSE, FALSE)

\* getResponse clearing lastQuestion after every reply to a pending question
getResponseAlwaysResets(userMessage, lq) ==
  LET lowercaseMessage == toLowerCase(userMessage) IN
  IF hasCrisisKeyword(lowercaseMessage)
    THEN Outcome(responses, "crisis", TRUE, FALSE)
  ELSE IF lq # "none" /\ some(affirmativeTokens, lowercaseMessage)
    THEN Outcome(responses, lq, FALSE, TRUE)
  ELSE IF lq # "none" /\ some(negativeTokens, lowercaseMessage)
    THEN Outcome(responses, "no" \o lq, FALSE, TRUE)
  ELSE Outcome(responses, generalKeyword(lowercaseMessage), FALSE, lq # "none")

\* getResponse of the timer-based ChatBot; lq is the lastQuestion of the
\* render whose handleSend scheduled the call
getResponse(userMessage, lq) ==
  LET lowercaseMessage == toLowerCase(userMessage) IN
  IF hasCrisisKeyword(lowercaseMessage)
    THEN Outcome(responses, "crisis", TRUE, FALSE)
  ELSE IF lq # "none" /\ some(affirmativeTokens, lowercaseMessage)
    THEN Outcome(responses, lq, FALSE, TRUE)
  ELSE IF lq # "none" /\ some(negativeTokens, lowercaseMessage)
    THEN Outcome(responses, "no" \o lq, FALSE, TRUE)
  ELSE Outcome(responses, generalKeyword(lowercaseMessage), FALSE, FALSE)

----------------------------------------------------------------------------
(* Tables of the backend-assisted ChatBot ("Mama Lucerna") *)

responsesMama ==
  [ breakfast   |-> << "That's wonderful, honey! A good breakfast",
                       "I'm so glad you ate!" >>,
    nobreakfast |-> << "Oh, sweetie, you really shouldn't skip breakfast!",
                       "My dear, your body needs fuel!" >>,
    lunch       |-> << "Good job, darling! Nourishing your body",
                       "That makes me happy! Eating well" >>,
    nolunch     |-> << "Oh no, honey bun! Skipping lunch",
                       "You need to take care of yourself, my love!" >>,
    dinner      |-> << "Perfect! Now you can relax",
                       "I'm glad to hear that! A warm meal" >>,
    nodinner    |-> << "Sweetheart, you can't go to bed hungry!",
                       "My love, please eat something." >>,
    love        |-> << "I love you so much, sweetie!",
                       "You are loved, you are enough",
                       "Sending you all my love" >>,
    advice      |-> << "My advice? Take a deep breath",
                       "Always be kind to yourself, darling.",
                       "Make sure you're getting enough sleep, honey." >>,
    sad         |-> << "Oh, my heart breaks to see you sad.",
                       "I'm sending you the biggest, warmest hug right now.",
                       "Do you want to talk about it" >>,
    happy       |-> << "Look at that smile!",
                       "That's music to my ears!" >>,
    stressed    |-> << "Take a deep breath with me, darling.",
                       "You're working so hard, sweetie." >>,
    anxious     |-> << "Shh, it's okay. You are safe.",
                       "I know it feels scary right now" >>,
    default     |-> << "I'm listening, sweetheart.",
                       "That's interesting, honey! Tell me more.",
                       "I'm here for you, always.",
                       "You can tell me anything." >>,
    crisis      |-> << "My precious child, I am so worried about you.",
                       "Oh honey, please don't say that." >> ]

affirmativeTokensMama == << "yes", "yeah", "yep", "sure", "i did" >>
negativeTokensMama    == << "no", "nah", "nope", "not yet", "i didn't" >>

generalKeywordMama(lowercaseMessage) ==
  IF includes(lowercaseMessage, "love") \/ includes(lowercaseMessage, "hug") THEN "love"
  ELSE IF includes(lowercaseMessage, "advice") \/ includes(lowercaseMessage, "help")
       \/ includes(lowercaseMessage, "what do i do") THEN "advice"
  ELSE IF includes(lowercaseMessage, "sad") \/ includes(lowercaseMessage, "cry")
       \/ includes(lowercaseMessage, "depressed") THEN "sad"
  ELSE IF includes(lowercaseMessage, "happy") \/ includes(lowercaseMessage, "good")
       \/ includes(lowercaseMessage, "great") \/ includes(lowercaseMessage, "excited")
       THEN "happy"
  ELSE IF includes(lowercaseMessage, "stress") \/ includes(lowercaseMessage, "tired")
       \/ includes(lowercaseMessage, "busy") THEN "stressed"
  ELSE IF includes(lowercaseMessage, "anxious") \/ includes(lowercaseMessage, "scared")
       \/ includes(lowercaseMessage, "worry") \/ includes(lowercaseMessage, "panic")
       THEN "anxious"
  ELSE "default"

\* getFallbackResponse of the backend-assisted ChatBot (no crisis check:
\* handleSend makes it before the backend is tried)
getFallbackResponse(userMessage, lq) ==
  LET lowercaseMessage == toLowerCase(userMessage) IN
  IF lq # "none" /\ some(affirmativeTokensMama, lowercaseMessage)
    THEN Outcome(responsesMama, lq, FALSE, TRUE)
  ELSE IF lq # "none" /\ some(negativeTokensMama, lowercaseMessage)
    THEN Outcome(responsesMama, "no" \o lq, FALSE, TRUE)
  ELSE Outcome(responsesMama, generalKeywordMama(lowercaseMessage), FALSE, FALSE)

\* what the generative backend does with one request: it answers with a
\* text (possibly empty) or the call fails
BackendResults ==
  { [kind |-> "text", text |-> "Oh sweetheart, Mama is here"],
    [kind |-> "text", text |-> ""],
    [kind |-> "error", text |-> ""] }

\* getGeminiResponse returning the error message instead of "" when the call throws
getGeminiResponseLeaksError(configured, result) ==
  IF ~configured THEN ""
  ELSE IF result.kind = "error" THEN "Error calling Gemini API"
  ELSE result.text

\* getGeminiResponse: "" without a model (no API key) and when the call
\* throws, the text of the response otherwise
getGeminiResponse(configured, result) ==
  IF ~configured THEN ""
  ELSE IF result.kind = "error" THEN ""
  ELSE result.text

----------------------------------------------------------------------------
(* The greeting effect, the same in both components up to the wording *)

Hours == {11, 12, 18}

lowMoods == {"Sad", "Tired", "Stressed", "Anxious"}

\* the greeting asking about the mood in the evening
greetingQuestionMood(hour) ==
  IF hour < 12 THEN "breakfast" ELSE IF hour < 18 THEN "lunch" ELSE "mood"

greetingQuestion(hour) ==
  IF hour < 12 THEN "breakfast" ELSE IF hour < 18 THEN "lunch" ELSE "dinner"

greetingText(v, hour, mood, note) ==
  LET hello == IF v = "timer" THEN "Hi there, honey! " ELSE "Hi there, my sweet child! "
      base  == IF hour < 12 THEN hello \o "Good morning! breakfast?"
               ELSE IF hour < 18 THEN hello \o "Good afternoon! lunch?"
               ELSE hello \o "Good evening! dinner?"
      withMood == IF Truthy(mood) /\ mood \in lowMoods
                    THEN "you're feeling " \o toLowerCase(mood) \o " today. " \o base
                    ELSE base
  IN  IF Truthy(note) THEN "journal. " \o withMood ELSE withMood

\* the body of the effect with dependencies [currentMood, soulNoteContent]:
\* setMessages([greeting]) and setLastQuestion(question)
greetingEffect(v, hour, mood, note) ==
  [ messages     |-> << [text |-> greetingText(v, hour, mood, note), isBot |-> TRUE] >>,
    lastQuestion |-> greetingQuestion(hour) ]

----------------------------------------------------------------------------
(* Dates and the streak (the check-in route of the server and the          *)
(* localStorage api of the client share the same updateStreak)             *)

\* number of updateStreak calls of one run of the client api
MaxCalls == 5

Digits == "0123456789"

\* the value of one decimal digit
digit(c) == (CHOOSE i \in 1..Len(Digits) : SubSeq(Digits, i, i) = c) - 1

\* the decimal number a string of digits spells
RECURSIVE parseDigits(_)
parseDigits(s) ==
  IF Len(s) = 0 THEN 0
  ELSE 10 * parseDigits(SubSeq(s, 1, Len(s) - 1)) + digit(SubSeq(s, Len(s), Len(s)))

isLeapYear(y) == (y % 4 = 0 /\ y % 100 # 0) \/ y % 400 = 0

\* days of a common year before the first of each month
daysBeforeMonth == << 0, 31, 59, 90, 120, 151, 181, 212, 243, 273, 304, 334 >>

\* days from 1970-01-01 to the first of January of year y
daysBeforeYear(y) ==
  365 * (y - 1970) + ((y - 1969) \div 4) - ((y - 1901) \div 100) + ((y - 1601) \div 400)

\* new Date("YYYY-MM-DD") is midnight UTC of that day; dayNumber is its
\* getTime() in whole days since the epoch (getTime() itself, in
\* milliseconds, exceeds the 32-bit integers of the model checker, so the
\* handlers' differences of two getTime() values are scaled after the
\* subtraction, see diffTime)
dayNumber(date) ==
  LET y == parseDigits(SubSeq(date, 1, 4))
      m == parseDigits(SubSeq(date, 6, 7))
      d == parseDigits(SubSeq(date, 9, 10))
  IN  daysBeforeYear(y) + daysBeforeMonth[m]
        + (IF m > 2 /\ isLeapYear(y) THEN 1 ELSE 0) + d - 1

\* the calendar days of the runs: a week around a leap day
Dates ==
  { "2024-02-27", "2024-02-28", "2024-02-29", "2024-03-01", "2024-03-02",
    "2024-03-03" }

\* the day the server's clock shows when the run starts
FirstDay == "2024-02-27"

dayNumberOf == [date \in Dates |-> dayNumber(date)]

\* 1000 * 60 * 60 * 24
MsPerDay == 1000 * 60 * 60 * 24

\* today.getTime() - lastDate.getTime()
diffTime(today, lastDate) == (dayNumberOf[today] - dayNumberOf[lastDate]) * MsPerDay

\* Math.floor(diffTime / (1000 * 60 * 60 * 24))
diffDays(today, lastDate) == diffTime(today, lastDate) \div MsPerDay

\* lastDate: null
Null == "null"

\* { current: 0, longest: 0, lastDate: null }
initialStreak == [current |-> 0, longest |-> 0, lastDate |-> Null]

\* "kv.get(streakKey) || {...}", "getStorage(streakKey) || {...}": the
\* stored item is << >> when the key is absent and << value >> otherwise
streakOrInitial(item) == IF item = << >> THEN initialStreak ELSE item[1]

\* Math.max without the new current
maxKeepsFirst(a, b) == a

\* Math.max
max(a, b) == IF a >= b THEN a ELSE b

\* nextCurrent where a later day always continues the run
nextCurrentGapContinues(current, lastDate, date) ==
  IF lastDate # Null /\ lastDate # ""
    THEN IF diffDays(date, lastDate) >= 1 THEN current + 1 ELSE current
    ELSE 1

\* nextCurrent counting a same-day call
nextCurrentSameDayCounts(current, lastDate, date) ==
  IF lastDate # Null /\ lastDate # ""
    THEN IF diffDays(date, lastDate) = 1 \/ diffDays(date, lastDate) = 0 THEN current + 1
         ELSE IF diffDays(date, lastDate) > 1 THEN 1
         ELSE current
    ELSE 1

\* nextCurrent where the first check-in does not count
nextCurrentFirstUncounted(current, lastDate, date) ==
  IF lastDate # Null /\ lastDate # ""
    THEN IF diffDays(date, lastDate) = 1 THEN current + 1
         ELSE IF diffDays(date, lastDate) > 1 THEN 1
         ELSE current
    ELSE current

\* nextCurrent where a gap resets the run to 0
nextCurrentGapZero(current, lastDate, date) ==
  IF lastDate # Null /\ lastDate # ""
    THEN IF diffDays(date, lastDate) = 1 THEN current + 1
         ELSE IF diffDays(date, lastDate) > 1 THEN 0
         ELSE current
    ELSE 1

\* the value of streak.current after the if (lastDate) {...} else {...} of
\* updateStreak
nextCurrent(current, lastDate, date) ==
  IF lastDate # Null /\ lastDate # ""
    THEN IF diffDays(date, lastDate) = 1 THEN current + 1
         ELSE IF diffDays(date, lastDate) > 1 THEN 1
         ELSE current
    ELSE 1

\* updateStreak from the streak read to the streak written
updateStreak(streak, date) ==
  LET current == nextCurrent(streak.current, streak.lastDate, date) IN
  [ current  |-> current,
    longest  |-> max(streak.longest, current),
    lastDate |-> date ]

\* the check-in requests the server handles at the same time
Requests == {1, 2}

\* what the body of a request carries as mood
Bodies == {"", "Happy"}

\* a request the server has received: where its handler stands (pc), the
\* date it took from the clock, the streak it read, and the status of its
\* answer (0 until it is answered)
received(r, pc, date, status) ==
  [id |-> r, pc |-> pc, date |-> date, streak |-> initialStreak, status |-> status]

----------------------------------------------------------------------------
(* The key-value store, the period prediction and the journal (the routes  *)
(* of the server and the localStorage api of the client)                   *)

\* number of save requests (period, journal) of one run
MaxSaves == 3

\* the ids of the users (the second extends the first)
Users == {"u1", "u12"}

\* getUserKey
getUserKey(userId, type) == "user:" \o userId \o ":" \o type

\* String.prototype.startsWith
startsWith(s, prefix) == Len(prefix) <= Len(s) /\ SubSeq(s, 1, Len(prefix)) = prefix

\* kv.set / setStorage: the item of the key is replaced or added
kvSet(items, key, value) ==
  {i \in items : i.key # key} \cup {[key |-> key, value |-> value]}

\* kv.getByPrefix, and the scan of localStorage for the keys that start
\* with the prefix: the items, which the store hands over in some order
getByPrefix(items, prefix) == {i \in items : startsWith(i.key, prefix)}

\* the orders in which a store can hand over a set of items
RECURSIVE Orders(_)
Orders(S) ==
  IF S = {} THEN {<< >>}
  ELSE UNION {{<< x >> \o o : o \in Orders(S \ {x})} : x \in S}

\* the prefix the localStorage api puts before every key
StoragePrefix == "lucerna_db_"

\* the start dates the period form can send (an input of type date), among
\* them the three of the 28-day example, gaps of 1, 4, 8, 13, 60, 77 and 90
\* days, and days on both sides of the start of daylight saving time
StartDates ==
  { "2024-01-01", "2024-01-29", "2024-02-26", "2024-03-01", "2024-03-09",
    "2024-03-10", "2024-05-26" }

startDayOf == [date \in StartDates |-> dayNumber(date)]

\* the id of a period record taken from the time of the request
periodIdFromClock(startDate, now) == ToString(now)

\* `${new Date(startDate).getTime()}`: the milliseconds of midnight UTC of
\* the start date (864 * 10^5 per day), as a string
periodId(startDate, now) == ToString(startDayOf[startDate] * 864) \o "00000"

\* periodData (the fields the prediction and the list do not read are left out)
periodData(userId, startDate, now) ==
  [id |-> periodId(startDate, now), userId |-> userId, startDate |-> startDate]

\* a sort that leaves the records in the order of the store
sortKeepsOrder(periods) == periods

\* periods.sort((a, b) => new Date(b.startDate).getTime() -
\* new Date(a.startDate).getTime()): latest start date first, records of
\* equal start date in the order they had
RECURSIVE sortDescending(_)
sortDescending(periods) ==
  IF Len(periods) <= 1 THEN periods
  ELSE LET sorted == sortDescending(SubSeq(periods, 1, Len(periods) - 1))
           p      == periods[Len(periods)]
           k      == Cardinality({i \in 1..Len(sorted) :
                        startDayOf[sorted[i].startDate] >= startDayOf[p.startDate]})
       IN  SubSeq(sorted, 1, k) \o << p >> \o SubSeq(sorted, k + 1, Len(sorted))

\* Math.floor((current.getTime() - previous.getTime()) / (1000 * 60 * 60 *
\* 24)) for periods[i] and periods[i + 1]; the times are kept in hours
diff(periods, i) ==
  (startDayOf[periods[i].startDate] * 24 - startDayOf[periods[i + 1].startDate] * 24)
    \div 24

\* the sanity check without its upper limit
plausibleAnyGap(d) == d > 0

\* diff > 0 && diff < 60
plausible(d) == d > 0 /\ d < 60

\* the loop over the adjacent pairs from position i on: totalCycleLength
\* and cycleCount
RECURSIVE cycleTotals(_, _)
cycleTotals(periods, i) ==
  IF i > Len(periods) - 1 THEN [totalCycleLength |-> 0, cycleCount |-> 0]
  ELSE LET rest == cycleTotals(periods, i + 1) IN
       IF plausible(diff(periods, i))
         THEN [totalCycleLength |-> rest.totalCycleLength + diff(periods, i),
               cycleCount       |-> rest.cycleCount + 1]
         ELSE rest

\* Math.round(a / b) for a >= 0 and b > 0: the nearest integer, a half
\* rounded up
round(a, b) == (2 * a + b) \div (2 * b)

\* cycleCount > 0 ? Math.round(totalCycleLength / cycleCount) : 28
avgCycleLength(periods) ==
  LET t == cycleTotals(periods, 1) IN
  IF t.cycleCount > 0 THEN round(t.totalCycleLength, t.cycleCount) ELSE 28

\* the time zones of the runtime that computes a prediction: the server
\* (an edge function) runs in UTC, a browser in the zone of the user
Zones == {"UTC", "America/New_York"}

\* daylight saving time of America/New_York in 2024, in hours since the
\* epoch: from 2024-03-10 07:00 UTC (03:00 on the wall clock) to
\* 2024-11-03 06:00 UTC (01:00 on the wall clock)
dstStart == [utc |-> dayNumber("2024-03-10") * 24 + 7, wall |-> dayNumber("2024-03-10") * 24 + 3]
dstEnd   == [utc |-> dayNumber("2024-11-03") * 24 + 6, wall |-> dayNumber("2024-11-03") * 24 + 1]

\* hours the local time of the zone is ahead of UTC at an instant
utcOffset(zone, utcHours) ==
  IF zone = "UTC" THEN 0
  ELSE IF utcHours >= dstStart.utc /\ utcHours < dstEnd.utc THEN 0 - 4 ELSE 0 - 5

\* the same at a wall-clock time of the zone (the wall-clock times used
\* here, 19:00 and 20:00, are in neither the skipped nor the repeated hour)
wallOffset(zone, wallHours) ==
  IF zone = "UTC" THEN 0
  ELSE IF wallHours >= dstStart.wall /\ wallHours < dstEnd.wall THEN 0 - 4 ELSE 0 - 5

\* the year of a day number
yearOf(n) == CHOOSE y \in 1970..2099 : daysBeforeYear(y) <= n /\ n < daysBeforeYear(y + 1)

\* days of year y before the first of month m
monthStart(y, m) == daysBeforeMonth[m] + (IF m > 2 /\ isLeapYear(y) THEN 1 ELSE 0)

pad2(x) == IF x < 10 THEN "0" \o ToString(x) ELSE ToString(x)

\* toISOString().split('T')[0] of an instant on day number n (UTC)
isoDate(n) ==
  LET y == yearOf(n)
      k == n - daysBeforeYear(y)
      m == CHOOSE mm \in 1..12 :
             monthStart(y, mm) <= k /\ (mm = 12 \/ k < monthStart(y, mm + 1))
  IN  ToString(y) \o "-" \o pad2(m) \o "-" \o pad2(k - monthStart(y, m) + 1)

\* nextDate = new Date(new Date(startDate)); nextDate.setDate(nextDate.
\* getDate() + avgCycleLength); nextDate.toISOString().split('T')[0]:
\* midnight UTC of the start date, read on the wall clock of the zone, moved
\* by whole days on that wall clock, and written as a UTC date
nextPeriodDate(zone, startDate, avg) ==
  LET utc  == startDayOf[startDate] * 24
      wall == utc + utcOffset(zone, utc) + avg * 24
  IN  isoDate((wall - wallOffset(zone, wall)) \div 24)

nextPeriodDateOf ==
  [zone \in Zones |-> [date \in StartDates |-> [avg \in 1..200 |->
     nextPeriodDate(zone, date, avg)]]]

\* lastPeriod taken from the end of the sorted list
lastPeriodOldest(periods) == periods[Len(periods)]

\* const lastPeriod = periods[0]
lastPeriod(periods) == periods[1]

\* the emptiness test taking a single record for none
noPeriodsOrOne(periods) == Len(periods) <= 1

\* !periods || periods.length === 0
noPeriods(periods) == Len(periods) = 0

\* the body of the period read for the records in the order the store
\* returned them, computed in a runtime of the given time zone:
\* { periods, prediction } (daysUntilNext, which depends on the time of the
\* read alone, is left out); prediction: null is << >>
periodResponse(stored, zone) ==
  IF noPeriods(stored) THEN [periods |-> << >>, prediction |-> << >>]
  ELSE LET periods == sortDescending(stored)
           avg     == avgCycleLength(periods)
       IN  [ periods    |-> periods,
             prediction |-> << [ nextPeriodDate |->
                                   nextPeriodDateOf[zone][lastPeriod(periods).startDate][avg],
                                 averageCycleLength |-> avg ] >> ]

----------------------------------------------------------------------------
(* State *)

VARIABLES
  variant,          \* which component runs: "timer" or "backend"
  configured,       \* gemini.ts: model is not null (an API key was set)
  greeted,          \* the greeting effect has run after mount
  currentMood,      \* prop
  soulNoteContent,  \* prop
  messages,         \* useState<Message[]>
  lastQuestion,     \* useState<QuestionType>
  isTyping,         \* useState(false), backend-assisted component only
  pending,          \* scheduled reply timers (in firing order), or backend
                    \* calls in flight; each holds what its closure captured
  sent,             \* history: number of messages accepted so far
  emergencyCount,   \* history: number of calls of onEmergency
  lastCall,         \* history: the reply computation of the last step
  mealReplies,      \* history: meal replies appended since the last greeting
  replyCount,       \* history: bot replies appended per accepted message
  mounted,          \* the component is in the tree (its state updates take effect)
  streakItem,       \* the value stored under the user's streak key, if any
  checkins,         \* the dates of the check-in records stored for the user
  clock,            \* the server's calendar day (UTC)
  requests,         \* the check-in requests the server is handling
  log,              \* history: the dates updateStreak was called with, in order
  before,           \* history: the streak the last updateStreak call started from
  store,            \* the items (key, value) of the key-value store / of localStorage
  timeZone,         \* the time zone of the runtime that computes the predictions
  now,              \* Date.now(), in milliseconds since the start of the run
  saves,            \* the number of save requests made
  saved,            \* history: the journal entries written, in order
  response          \* the last response of the period and journal requests

chatVars == << variant, configured, greeted, currentMood, soulNoteContent, messages,
               lastQuestion, isTyping, pending, sent, emergencyCount, lastCall,
               mealReplies, replyCount, mounted >>

streakVars == << streakItem, checkins, clock, requests, log, before >>

dataVars == << store, timeZone, now, saves, saved, response >>

vars == << chatVars, streakVars, dataVars >>

\* no request answered yet
NoResponse == [route |-> "none"]

Variants == {"timer", "backend"}

\* what the host passes as << currentMood, soulNoteContent >>: nothing (as
\* App.tsx does), or a low mood and a journal entry
Props == { << Undefined, Undefined >>, << "Sad", "Dear diary" >> }
Moods == {p[1] : p \in Props}
Notes == {p[2] : p \in Props}

\* values of Math.random(), in hundredths
Randoms == {0, 99}

\* Math.floor(Math.random() * length)
randomIndex(r, length) == (r * length) \div 100

\* what the user types before pressing send
Inputs ==
  { "", "  ", "Yeah I did not", "No, I want to DIE", "Sure, tell me a fun fact",
    "i feel sad and stressed", "hello", "I know" }

\* what the user types into the backend-assisted component: the same
\* without the fun-fact request, which is no topic there, and without
\* "hello" (the other inputs reach the default set once the question is
\* answered)
InputsMama == Inputs \ {"Sure, tell me a fun fact", "hello"}

\* The pure functions of the handlers, tabulated over the inputs and the
\* values of lastQuestion (the tables are evaluated once; the actions read
\* them instead of recomputing the same string searches in every state)
isBlank        == [t \in Inputs |-> trim(t) = ""]
crisisOfCaseSensitive == [t \in Inputs |-> hasCrisisKeyword(t)]
crisisOf       == [t \in Inputs |-> hasCrisisKeyword(toLowerCase(t))]
getResponseOf  == [t \in Inputs |-> [q \in QuestionType |-> getResponse(t, q)]]
getFallbackResponseOf ==
  [t \in Inputs |-> [q \in QuestionType |-> getFallbackResponse(t, q)]]
greetingEffectOf ==
  [v \in Variants |-> [hour \in Hours |-> [mood \in Moods |-> [note \in Notes |->
     greetingEffect(v, hour, mood, note)]]]]

Meals    == {"breakfast", "lunch", "dinner"}
MealKeys == Meals \cup {"no" \o q : q \in Meals}

\* no backend call was made
NoResult == [kind |-> "none", text |-> ""]

NoCall ==
  [ via |-> "none", id |-> 0, input |-> "", lq |-> "none", key |-> "none",
    text |-> "", emergency |-> FALSE, reset |-> FALSE, throws |-> FALSE,
    result |-> NoResult ]

\* the record of one reply computation: the function that computed it, the
\* message it answers with the lastQuestion its closure holds, what it
\* looked up and did, the reply text, and what the backend had answered
Call(via, req, o, text, result) ==
  [ via |-> via, id |-> req.id, input |-> req.input, lq |-> req.lq, key |-> o.key,
    text |-> text, emergency |-> o.emergency, reset |-> o.reset, throws |-> o.throws,
    result |-> result ]

InitIn(zone) ==
  /\ variant \in Variants
  /\ configured \in (IF variant = "backend" THEN BOOLEAN ELSE {FALSE})
  /\ greeted = FALSE
  /\ \E p \in Props : currentMood = p[1] /\ soulNoteContent = p[2]
  /\ messages = << >>
  /\ lastQuestion = "none"
  /\ isTyping = FALSE
  /\ pending = << >>
  /\ sent = 0
  /\ emergencyCount = 0
  /\ lastCall = NoCall
  /\ mealReplies = 0
  /\ replyCount = [i \in 1..MaxSends |-> 0]
  /\ mounted = TRUE
  /\ streakItem = << >>
  /\ checkins = {}
  /\ clock = FirstDay
  /\ requests = {}
  /\ log = << >>
  /\ before = initialStreak
  /\ store = {}
  /\ timeZone = zone
  /\ now = 0
  /\ saves = 0
  /\ saved = << >>
  /\ response = NoResponse

\* the state after construction, in a runtime in UTC
Init == InitIn("UTC")

----------------------------------------------------------------------------
(* Actions *)

\* the greeting effect runs once after mount
Mount ==
  /\ mounted
  /\ ~greeted
  /\ \E hour \in Hours :
       LET g == greetingEffectOf[variant][hour][currentMood][soulNoteContent] IN
       /\ messages' = g.messages
       /\ lastQuestion' = g.lastQuestion
  /\ greeted' = TRUE
  /\ lastCall' = NoCall
  /\ mealReplies' = 0
  /\ UNCHANGED << variant, configured, currentMood, soulNoteContent, isTyping,
                  pending, sent, emergencyCount, replyCount, mounted >>
  /\ UNCHANGED << streakVars, dataVars >>

\* the host renders the component with another currentMood or
\* soulNoteContent: the dependencies differ, so the greeting effect runs again
PropsChange ==
  /\ mounted
  /\ greeted
  /\ \E p \in Props, hour \in Hours :
       /\ p # << currentMood, soulNoteContent >>
       /\ currentMood' = p[1]
       /\ soulNoteContent' = p[2]
       /\ LET g == greetingEffectOf[variant][hour][p[1]][p[2]] IN
          /\ messages' = g.messages
          /\ lastQuestion' = g.lastQuestion
  /\ lastCall' = NoCall
  /\ mealReplies' = 0
  /\ UNCHANGED << variant, configured, greeted, isTyping, pending, sent,
                  emergencyCount, replyCount, mounted >>
  /\ UNCHANGED << streakVars, dataVars >>

\* The part of a task that computes a reply and appends it:
\*   via    the function that computed it
\*   table  its responses table
\*   o      what the computation did (see Outcome)
\*   req    the message answered, with the lastQuestion its closure holds
\*   base   the message list the reply is appended to
\*   result what the backend had answered, if it was asked
AppendReply(via, table, o, req, base, result) ==
  IF o.throws
    THEN /\ messages' = base
         /\ lastCall' = Call(via, req, o, "", result)
         /\ UNCHANGED << lastQuestion, emergencyCount, mealReplies, replyCount >>
    ELSE \E r \in Randoms :
           LET text == table[o.key][randomIndex(r, Len(table[o.key])) + 1] IN
           /\ messages' = Append(base, [text |-> text, isBot |-> TRUE])
           /\ lastCall' = Call(via, req, o, text, result)
           /\ lastQuestion' = IF o.reset THEN "none" ELSE lastQuestion
           /\ emergencyCount' = IF o.emergency THEN emergencyCount + 1 ELSE emergencyCount
           /\ mealReplies' = IF o.key \in MealKeys THEN mealReplies + 1 ELSE mealReplies
           /\ replyCount' = [replyCount EXCEPT ![req.id] = @ + 1]

\* handleSend of the timer-based ChatBot, with the text typed into the input
handleSend(text) ==
  /\ variant = "timer"
  /\ mounted
  /\ greeted
  /\ sent < MaxSends
  /\ IF isBlank[text]
       THEN UNCHANGED vars
       ELSE /\ messages' = Append(messages, [text |-> text, isBot |-> FALSE])
            /\ pending' = Append(pending, [id |-> sent + 1, input |-> text, lq |-> lastQuestion])
            /\ sent' = sent + 1
            /\ lastCall' = NoCall
            /\ UNCHANGED << variant, configured, greeted, currentMood, soulNoteContent,
                            lastQuestion, isTyping, emergencyCount, mealReplies,
                            replyCount, mounted >>
            /\ UNCHANGED << streakVars, dataVars >>

\* what getResponse still does when its component has left the tree: the
\* lookup, the call of onEmergency (a function of the host), and state
\* updates that no longer take effect
DetachedReply(via, table, o, req) ==
  IF o.throws
    THEN /\ lastCall' = Call(via, req, o, "", NoResult)
         /\ UNCHANGED << messages, lastQuestion, emergencyCount, mealReplies, replyCount >>
    ELSE \E r \in Randoms :
           LET text == table[o.key][randomIndex(r, Len(table[o.key])) + 1] IN
           /\ lastCall' = Call(via, req, o, text, NoResult)
           /\ emergencyCount' = IF o.emergency THEN emergencyCount + 1 ELSE emergencyCount
           /\ UNCHANGED << messages, lastQuestion, mealReplies, replyCount >>

\* the timer callback with a reply that looks at the mood: a low
\* currentMood turns a default reply into one of the sadness set
TimerFireMoodAware ==
  /\ variant = "timer"
  /\ pending # << >>
  /\ LET req == Head(pending)
         o   == getResponseOf[req.input][req.lq]
         om  == IF o.key = "default" /\ currentMood \in lowMoods
                  THEN Outcome(responses, "sad", FALSE, FALSE) ELSE o
     IN  IF mounted
           THEN AppendReply("getResponse", responses, om, req, messages, NoResult)
           ELSE DetachedReply("getResponse", responses, om, req)
  /\ pending' = Tail(pending)
  /\ UNCHANGED << variant, configured, greeted, currentMood, soulNoteContent,
                  isTyping, sent, mounted >>
  /\ UNCHANGED << streakVars, dataVars >>

\* timer callbacks that run in the reverse of the order the timers were set
TimerFireLatestFirst ==
  /\ variant = "timer"
  /\ pending # << >>
  /\ LET req == pending[Len(pending)] IN
       IF mounted
         THEN AppendReply("getResponse", responses, getResponseOf[req.input][req.lq], req,
                          messages, NoResult)
         ELSE DetachedReply("getResponse", responses, getResponseOf[req.input][req.lq], req)
  /\ pending' = SubSeq(pending, 1, Len(pending) - 1)
  /\ UNCHANGED << variant, configured, greeted, currentMood, soulNoteContent,
                  isTyping, sent, mounted >>
  /\ UNCHANGED << streakVars, dataVars >>

\* the callback of setTimeout(..., 1000): timers of equal delay fire in the
\* order they were set, and nothing clears a timer when the component
\* leaves the tree
TimerFire ==
  /\ variant = "timer"
  /\ pending # << >>
  /\ LET req == Head(pending) IN
       IF mounted
         THEN AppendReply("getResponse", responses, getResponseOf[req.input][req.lq], req,
                          messages, NoResult)
         ELSE DetachedReply("getResponse", responses, getResponseOf[req.input][req.lq], req)
  /\ pending' = Tail(pending)
  /\ UNCHANGED << variant, configured, greeted, currentMood, soulNoteContent,
                  isTyping, sent, mounted >>
  /\ UNCHANGED << streakVars, dataVars >>

\* the host stops rendering the component (the host itself stays)
Unmount ==
  /\ variant = "timer"
  /\ mounted
  /\ mounted' = FALSE
  /\ lastCall' = NoCall
  /\ UNCHANGED << variant, configured, greeted, currentMood, soulNoteContent, messages,
                  lastQuestion, isTyping, pending, sent, emergencyCount, mealReplies,
                  replyCount >>
  /\ UNCHANGED << streakVars, dataVars >>

\* the crisis branch without the call of onEmergency
crisisOutcomeNoCallback == Outcome(responsesMama, "crisis", FALSE, FALSE)

\* the crisis branch of the backend-assisted handleSend: onEmergency(), a
\* crisis template appended, setIsTyping(false), return
crisisOutcome == Outcome(responsesMama, "crisis", TRUE, FALSE)

\* the reply of the backend-assisted handleSend once getGeminiResponse has
\* resolved, the backend having answered result (NoResult when it was not
\* asked for want of a model): the resolved text if it is truthy, otherwise
\* what getFallbackResponse computes; then setIsTyping(false)
BackendReply(req, result, base) ==
  /\ IF getGeminiResponse(configured, result) # ""
       THEN /\ messages' = Append(base, [text |-> getGeminiResponse(configured, result),
                                         isBot |-> TRUE])
            /\ lastCall' = Call("getGeminiResponse", req,
                                [key |-> "none", emergency |-> FALSE, reset |-> FALSE,
                                 throws |-> FALSE],
                                getGeminiResponse(configured, result), result)
            /\ replyCount' = [replyCount EXCEPT ![req.id] = @ + 1]
            /\ UNCHANGED << lastQuestion, emergencyCount, mealReplies >>
       ELSE AppendReply("getFallbackResponse", responsesMama,
                        getFallbackResponseOf[req.input][req.lq], req, base, result)
  /\ isTyping' = FALSE

\* handleSend of the backend-assisted ChatBot up to its first await, and
\* through to the end where nothing is awaited from the network: the crisis
\* branch returns at once, and without a model getGeminiResponse resolves
\* at once, so the continuation runs before any other task
handleSendMama(text) ==
  /\ variant = "backend"
  /\ mounted
  /\ greeted
  /\ sent < MaxSends
  /\ IF isBlank[text]
       THEN UNCHANGED vars
       ELSE LET req  == [id |-> sent + 1, input |-> text, lq |-> lastQuestion]
                base == Append(messages, [text |-> text, isBot |-> FALSE])
            IN  /\ sent' = sent + 1
                /\ UNCHANGED << variant, configured, greeted, currentMood, soulNoteContent,
                                mounted >>
                /\ UNCHANGED << streakVars, dataVars >>
                /\ IF crisisOf[text]
                     THEN /\ AppendReply("handleSend", responsesMama, crisisOutcome, req, base,
                                         NoResult)
                          /\ isTyping' = FALSE
                          /\ UNCHANGED pending
                   ELSE IF ~configured
                     THEN /\ BackendReply(req, NoResult, base)
                          /\ UNCHANGED pending
                   ELSE /\ messages' = base
                        /\ isTyping' = TRUE
                        /\ pending' = Append(pending, req)
                        /\ lastCall' = NoCall
                        /\ UNCHANGED << lastQuestion, emergencyCount, mealReplies,
                                        replyCount >>

\* the continuation of "await getGeminiResponse(...)" for one call in
\* flight; calls complete in any order, and one that never completes stays
\* in flight
BackendReturn ==
  /\ variant = "backend"
  /\ \E k \in 1..Len(pending), result \in BackendResults :
       /\ BackendReply(pending[k], result, messages)
       /\ pending' = SubSeq(pending, 1, k - 1) \o SubSeq(pending, k + 1, Len(pending))
  /\ UNCHANGED << variant, configured, greeted, currentMood, soulNoteContent, sent,
                  mounted >>
  /\ UNCHANGED << streakVars, dataVars >>

\* the timer-based component
Next ==
  \/ Mount
  \/ PropsChange
  \/ \E text \in Inputs : handleSend(text)
  \/ TimerFire

\* the backend-assisted component
NextBackend ==
  \/ Mount
  \/ PropsChange
  \/ \E text \in InputsMama : handleSendMama(text)
  \/ BackendReturn

InitTimer == Init /\ variant = "timer"

Spec == InitTimer /\ [][Next]_vars

InitBackend == Init /\ variant = "backend"

SpecBackend == InitBackend /\ [][NextBackend]_vars

\* either component
NextBoth ==
  \/ Mount
  \/ PropsChange
  \/ \E text \in Inputs : handleSend(text)
  \/ TimerFire
  \/ \E text \in InputsMama : handleSendMama(text)
  \/ BackendReturn

SpecBoth == Init /\ [][NextBoth]_vars

\* the timer-based component and its teardown
NextTeardown ==
  \/ Mount
  \/ PropsChange
  \/ \E text \in Inputs : handleSend(text)
  \/ TimerFire
  \/ Unmount

SpecTeardown == InitTimer /\ [][NextTeardown]_vars

\* what the user types in the runs that follow the timers: nothing, a
\* yes/no answer, a message with a crisis keyword, and another message
InputsTimers == {"", "Yeah I did not", "No, I want to DIE", "hello"}

NextTimers ==
  \/ Mount
  \/ PropsChange
  \/ \E text \in InputsTimers : handleSend(text)
  \/ TimerFire

\* the timer-based component with its timers: a timer that was set fires
\* after its delay, so the callback of the earliest timer cannot stay due
\* forever (the event loop runs every due callback)
SpecTimers == InitTimer /\ [][NextTimers]_vars /\ WF_vars(TimerFire)

----------------------------------------------------------------------------
(* The streak: the localStorage api of the client, and the check-in route  *)
(* of the server                                                           *)

\* api.updateStreak of the client: getStorage, the update and setStorage
\* run in one task (nothing is awaited in between)
apiUpdateStreak(date) ==
  /\ Len(log) < MaxCalls
  /\ LET streak == streakOrInitial(streakItem) IN
       /\ streakItem' = << updateStreak(streak, date) >>
       /\ before' = streak
  /\ log' = Append(log, date)
  /\ UNCHANGED << checkins, clock, requests >>
  /\ UNCHANGED << chatVars, dataVars >>

NextStreak == \E date \in Dates : apiUpdateStreak(date)

InitStreak == InitTimer /\ currentMood = Undefined

SpecStreak == InitStreak /\ [][NextStreak]_vars

\* POST /checkin up to its first storage call: the body is read, a request
\* without a mood is answered 400, otherwise the date is taken from the
\* clock and kv.set(checkinKey, checkin) is issued
PostCheckin(r) ==
  /\ \A q \in requests : q.id # r
  /\ \E mood \in Bodies :
       requests' = requests \cup
                     { IF mood = "" THEN received(r, "done", Null, 400)
                       ELSE received(r, "kvSetCheckin", clock, 0) }
  /\ UNCHANGED << streakItem, checkins, clock, log, before >>
  /\ UNCHANGED << chatVars, dataVars >>

\* the storage performs kv.set(checkinKey, checkin); the handler goes on to
\* updateStreak, which issues kv.get(streakKey)
KvSetCheckin(r) ==
  /\ \E q \in requests :
       /\ q.id = r /\ q.pc = "kvSetCheckin"
       /\ checkins' = checkins \cup {q.date}
       /\ requests' = (requests \ {q}) \cup {[q EXCEPT !.pc = "kvGetStreak"]}
  /\ UNCHANGED << streakItem, clock, log, before >>
  /\ UNCHANGED << chatVars, dataVars >>

\* the storage performs kv.get(streakKey); updateStreak holds the value read
\* (or the initial streak), computes, and issues kv.set(streakKey, streak)
KvGetStreak(r) ==
  /\ \E q \in requests :
       /\ q.id = r /\ q.pc = "kvGetStreak"
       /\ requests' = (requests \ {q}) \cup
                        {[q EXCEPT !.pc = "kvSetStreak",
                                   !.streak = streakOrInitial(streakItem)]}
  /\ UNCHANGED << streakItem, checkins, clock, log, before >>
  /\ UNCHANGED << chatVars, dataVars >>

\* the storage performs kv.set(streakKey, streak) with the streak computed
\* from the value the request had read; the request is answered 200
KvSetStreak(r) ==
  /\ \E q \in requests :
       /\ q.id = r /\ q.pc = "kvSetStreak"
       /\ streakItem' = << updateStreak(q.streak, q.date) >>
       /\ requests' = (requests \ {q}) \cup {[q EXCEPT !.pc = "done", !.status = 200]}
       /\ log' = Append(log, q.date)
       /\ before' = q.streak
  /\ UNCHANGED << checkins, clock >>
  /\ UNCHANGED << chatVars, dataVars >>

\* a storage call of the request throws: the catch answers 500
KvError(r) ==
  /\ \E q \in requests :
       /\ q.id = r /\ q.pc \in {"kvSetCheckin", "kvGetStreak", "kvSetStreak"}
       /\ requests' = (requests \ {q}) \cup {[q EXCEPT !.pc = "done", !.status = 500]}
  /\ UNCHANGED << streakItem, checkins, clock, log, before >>
  /\ UNCHANGED << chatVars, dataVars >>

\* midnight UTC passes on the server
Tick ==
  /\ \E date \in Dates :
       /\ dayNumberOf[date] = dayNumberOf[clock] + 1
       /\ clock' = date
  /\ UNCHANGED << streakItem, checkins, requests, log, before >>
  /\ UNCHANGED << chatVars, dataVars >>

NextCheckin ==
  \/ \E r \in Requests : PostCheckin(r)
  \/ \E r \in Requests : KvSetCheckin(r)
  \/ \E r \in Requests : KvGetStreak(r)
  \/ \E r \in Requests : KvSetStreak(r)
  \/ \E r \in Requests : KvError(r)
  \/ Tick

SpecCheckin == InitStreak /\ [][NextCheckin]_vars

----------------------------------------------------------------------------
(* The period tracker: the routes of the server, which runs in UTC, and   *)
(* the localStorage api, which runs in the time zone of the browser        *)

\* what the period form and the api callers send: a user, and the value of
\* a date input ("" when it was left empty)
StartDateInputs == StartDates \cup {""}

\* the values of the items, in the order the store handed them over
valuesOf(stored) == [i \in 1..Len(stored) |-> stored[i].value]

\* POST /period: 400 without a user id or a start date; else the record is
\* set under the key of the user and of the start date
PostPeriod(userId, startDate) ==
  /\ saves < MaxSaves
  /\ saves' = saves + 1
  /\ \E ms \in {0, 1} : now' = now + ms
  /\ IF userId = "" \/ startDate = ""
       THEN /\ response' = [route |-> "POST /period", status |-> 400]
            /\ store' = store
       ELSE LET data == periodData(userId, startDate, now') IN
            /\ store' = kvSet(store, getUserKey(userId, "period:" \o data.id), data)
            /\ response' = [route |-> "POST /period", status |-> 200, periodData |-> data]
  /\ UNCHANGED << timeZone, saved >>
  /\ UNCHANGED << chatVars, streakVars >>

\* GET /period/:userId: the records under the prefix of the user, in the
\* order the store returns them, and the prediction
GetPeriod(userId) ==
  /\ \E stored \in Orders(getByPrefix(store, getUserKey(userId, "period:"))) :
       response' = [route |-> "GET /period", userId |-> userId, status |-> 200,
                    stored |-> valuesOf(stored),
                    body |-> periodResponse(valuesOf(stored), timeZone)]
  /\ UNCHANGED << store, timeZone, now, saves, saved >>
  /\ UNCHANGED << chatVars, streakVars >>

NextPeriod ==
  \/ \E userId \in Users, startDate \in StartDateInputs : PostPeriod(userId, startDate)
  \/ \E userId \in Users : GetPeriod(userId)

SpecPeriod == InitStreak /\ [][NextPeriod]_vars

\* savePeriodData of the localStorage api: the record is set under the
\* prefixed key of the user and of the start date
savePeriodData(userId, startDate) ==
  /\ saves < MaxSaves
  /\ saves' = saves + 1
  /\ \E ms \in {0, 1} : now' = now + ms
  /\ LET data == periodData(userId, startDate, now') IN
       /\ store' = kvSet(store, StoragePrefix \o getUserKey(userId, "period:" \o data.id), data)
       /\ response' = [route |-> "savePeriodData", status |-> 200, periodData |-> data]
  /\ UNCHANGED << timeZone, saved >>
  /\ UNCHANGED << chatVars, streakVars >>

\* getPeriodData of the localStorage api: the records whose key starts with
\* the prefixed key of the user, in the order of localStorage, and the
\* prediction
getPeriodData(userId) ==
  /\ \E stored \in Orders(getByPrefix(store, StoragePrefix \o getUserKey(userId, "period:"))) :
       response' = [route |-> "getPeriodData", userId |-> userId, status |-> 200,
                    stored |-> valuesOf(stored),
                    body |-> periodResponse(valuesOf(stored), timeZone)]
  /\ UNCHANGED << store, timeZone, now, saves, saved >>
  /\ UNCHANGED << chatVars, streakVars >>

NextPeriodApi ==
  \/ \E userId \in Users, startDate \in StartDates : savePeriodData(userId, startDate)
  \/ \E userId \in Users : getPeriodData(userId)

\* the browser is in one of the time zones
InitBrowser == \E zone \in Zones : InitIn(zone) /\ variant = "timer" /\ currentMood = Undefined

SpecPeriodApi == InitBrowser /\ [][NextPeriodApi]_vars

----------------------------------------------------------------------------
(* The journal (Soul Notes) routes of the server *)

\* what the journal form sends: a content, a password and a title, each of
\* which can be empty
Contents  == {"", "a", "b"}
Passwords == {"", "p1", "p2"}
Titles    == {"", "Day"}

\* title || 'Untitled'
titleOr(title) == IF title = "" THEN "Untitled" ELSE title

\* the entry of POST /journal, with the id `${Date.now()}` (the timestamp,
\* which no route reads, is left out)
journalEntry(userId, content, password, title, ms) ==
  [ id |-> ToString(ms), userId |-> userId, title |-> titleOr(title),
    content |-> content, password |-> password ]

\* entry.password === password
passwordMatches(entry, password) == entry.password = password

\* the entry as the list returns it
withoutPassword(entry) ==
  [ id |-> entry.id, userId |-> entry.userId, title |-> entry.title,
    content |-> entry.content ]

\* (entries || []).filter(...).map(...), in the order of the list
RECURSIVE validEntries(_, _)
validEntries(entries, password) ==
  IF entries = << >> THEN << >>
  ELSE IF passwordMatches(Head(entries), password)
         THEN << withoutPassword(Head(entries)) >> \o validEntries(Tail(entries), password)
         ELSE validEntries(Tail(entries), password)

\* POST /journal: 400 without a user id, a content or a password; else the
\* entry is set under the key of the user and of the current millisecond
PostJournal(userId, content, password, title) ==
  /\ saves < MaxSaves
  /\ saves' = saves + 1
  /\ \E ms \in {0, 1} : now' = now + ms
  /\ IF userId = "" \/ content = "" \/ password = ""
       THEN /\ response' = [route |-> "POST /journal", status |-> 400]
            /\ UNCHANGED << store, saved >>
       ELSE LET entry == journalEntry(userId, content, password, title, now') IN
            /\ store' = kvSet(store, getUserKey(userId, "journal:" \o entry.id), entry)
            /\ saved' = Append(saved, entry)
            /\ response' = [route |-> "POST /journal", status |-> 200, entryId |-> entry.id]
  /\ UNCHANGED timeZone
  /\ UNCHANGED << chatVars, streakVars >>

\* POST /journal/list: 400 without a user id or a password; else the entries
\* under the prefix of the user, in the order the store returns them, that
\* have the password, without it
PostJournalList(userId, password) ==
  /\ IF userId = "" \/ password = ""
       THEN response' = [route |-> "POST /journal/list", status |-> 400]
       ELSE \E stored \in Orders(getByPrefix(store, getUserKey(userId, "journal:"))) :
              response' = [route |-> "POST /journal/list", status |-> 200,
                           userId |-> userId, password |-> password,
                           entries |-> validEntries(valuesOf(stored), password)]
  /\ UNCHANGED << store, timeZone, now, saves, saved >>
  /\ UNCHANGED << chatVars, streakVars >>

NextJournal ==
  \/ \E userId \in Users, content \in Contents, password \in Passwords, title \in Titles :
       PostJournal(userId, content, password, title)
  \/ \E userId \in Users, password \in Passwords : PostJournalList(userId, password)

SpecJournal == InitStreak /\ [][NextJournal]_vars

----------------------------------------------------------------------------
(* Properties *)

Range(f) == {f[i] : i \in DOMAIN f}

IsPrefix(a, b) == Len(a) <= Len(b) /\ SubSeq(b, 1, Len(a)) = a

\* the responses table of the component that runs
Table == IF variant = "timer" THEN responses ELSE responsesMama

MealTexts(table) == UNION {Range(table[k]) : k \in MealKeys}

\* the inputs whose lower-cased text contains a crisis keyword, an
\* affirmative token (yes/yeah/yep/sure), a negative token (no/nah/nope)
CrisisInputs      == {t \in Inputs : some(crisisKeywords, toLowerCase(t))}
AffirmativeInputs == {t \in Inputs : some(<< "yes", "yeah", "yep", "sure" >>, toLowerCase(t))}
NegativeInputs    == {t \in Inputs : some(<< "no", "nah", "nope" >>, toLowerCase(t))}

\* the last step computed a reply and appended it as the last message
Replied ==
  /\ lastCall.via # "none"
  /\ ~lastCall.throws
  /\ Len(messages) > 0
  /\ messages[Len(messages)] = [text |-> lastCall.text, isBot |-> TRUE]

\* C1: whenever a reply is computed for an input whose lower-cased text
\* contains a crisis keyword, whatever lastQuestion the computation reads,
\* onEmergency is called and the reply appended is a crisis template, not a
\* template of an acknowledged-meal or missed-meal set.
C1_CrisisPreempts ==
  (lastCall.via # "none" /\ lastCall.input \in CrisisInputs) =>
     /\ Replied
     /\ lastCall.emergency
     /\ emergencyCount > 0
     /\ lastCall.key = "crisis"
     /\ lastCall.text \in Range(Table.crisis)
     /\ lastCall.text \notin MealTexts(Table)

\* pending breakfast + "No, I want to DIE" was answered by the timer-based component
C1_Witness ==
  /\ lastCall.via = "getResponse"
  /\ lastCall.input = "No, I want to DIE"
  /\ lastCall.lq = "breakfast"
  /\ lastQuestion = "breakfast"

\* C2: lastQuestion, in the state and in every closure, is none or a meal
\* (never 'mood'); for every input, the empty string included, and the
\* reachable lastQuestion, getResponse looks up a key the responses table
\* defines, whose set is non-empty and holds non-empty texts; and a reply
\* computation never throws and appends one such text.
C2_Total ==
  /\ lastQuestion \in Meals \cup {"none"}
  /\ \A k \in 1..Len(pending) : pending[k].lq \in Meals \cup {"none"}
  /\ \A t \in Inputs :
       LET o == getResponseOf[t][lastQuestion] IN
       /\ ~o.throws
       /\ o.key \in DOMAIN responses
       /\ Len(responses[o.key]) > 0
       /\ \A i \in 1..Len(responses[o.key]) : Len(responses[o.key][i]) > 0
  /\ lastCall.via = "getResponse" =>
       /\ Replied
       /\ lastCall.text \in Range(responses[lastCall.key])
       /\ Len(lastCall.text) > 0

\* a yes/no lookup (responses['no' + lastQuestion]) was made for the dinner question
C2_Witness ==
  /\ lastCall.via = "getResponse"
  /\ lastCall.lq = "dinner"
  /\ lastCall.key = "nodinner"

\* C3: since the last greeting at most one reply was drawn from the
\* acknowledged-meal / missed-meal sets, and a reply computed after such a
\* reply reads lastQuestion = none.
C3_AnsweredOnce ==
  /\ mealReplies <= 1
  /\ (lastCall.via = "getResponse" /\ mealReplies >= 1 /\ lastCall.key \notin MealKeys)
       => lastCall.lq = "none"

\* C4: a reply computed by getResponse with lastQuestion a meal q, for an
\* input with an affirmative token and no crisis keyword, is a template of
\* responses[q], and lastQuestion is none afterwards.
C4_Affirmative ==
  ( /\ lastCall.via = "getResponse"
    /\ lastCall.lq # "none"
    /\ lastCall.input \notin CrisisInputs
    /\ lastCall.input \in AffirmativeInputs ) =>
     /\ Replied
     /\ lastCall.key = lastCall.lq
     /\ lastCall.text \in Range(responses[lastCall.lq])
     /\ lastQuestion = "none"

\* pending lunch answered "Yeah I did not": the affirmative token wins, and
\* pending breakfast answered with an affirmative token and a topic keyword
C4_Witness ==
  /\ lastCall.via = "getResponse"
  /\ \/ lastCall.lq = "lunch" /\ lastCall.input = "Yeah I did not"
     \/ lastCall.lq = "breakfast" /\ lastCall.input = "Sure, tell me a fun fact"

\* C5: a reply computed by getResponse with lastQuestion a meal q, for an
\* input with a negative token, no affirmative token and no crisis keyword,
\* is a template of responses['no' + q], and lastQuestion is none afterwards.
C5_Negative ==
  ( /\ lastCall.via = "getResponse"
    /\ lastCall.lq # "none"
    /\ lastCall.input \notin CrisisInputs
    /\ lastCall.input \in NegativeInputs
    /\ lastCall.input \notin AffirmativeInputs ) =>
     /\ Replied
     /\ lastCall.key = "no" \o lastCall.lq
     /\ lastCall.text \in Range(responses["no" \o lastCall.lq])
     /\ lastQuestion = "none"

\* pending lunch answered "I know" ('no' is a substring)
C5_Witness ==
  /\ lastCall.via = "getResponse"
  /\ lastCall.lq = "lunch"
  /\ lastCall.input = "I know"

TopicKeys == {"funfact", "sad", "happy", "stressed", "anxious"}

\* the step is a reply computation of getResponse with a question pending
\* (when the message was sent, which is what getResponse reads, or now) for
\* an input with no crisis keyword and no yes/no token
FallsThrough ==
  /\ lastCall'.via = "getResponse"
  /\ lastCall' # lastCall \/ messages' # messages
  /\ lastCall'.lq # "none" \/ lastQuestion # "none"
  /\ lastCall'.input \notin CrisisInputs
  /\ lastCall'.input \notin AffirmativeInputs
  /\ lastCall'.input \notin NegativeInputs

\* C6: a reply computation with a question pending, for an input with no
\* affirmative token, no negative token and no crisis keyword, takes its
\* reply from a topic set or the default set and leaves lastQuestion as it
\* was.
C6_FallThrough ==
  [][ FallsThrough =>
        /\ lastCall'.key \in TopicKeys \cup {"default"}
        /\ lastCall'.text \in Range(responses[lastCall'.key])
        /\ messages' = Append(messages, [text |-> lastCall'.text, isBot |-> TRUE])
        /\ ~lastCall'.reset
        /\ lastQuestion' = lastQuestion ]_vars

\* a fall-through to a topic set and one to the default set, the lunch
\* question still pending
C6_Witness ==
  /\ lastCall.via = "getResponse"
  /\ lastCall.lq = "lunch"
  /\ lastQuestion = "lunch"
  /\ lastCall.input \in {"i feel sad and stressed", "hello"}
  /\ lastCall.key \in {"sad", "default"}

CrisisTexts == Range(responses.crisis) \cup Range(responsesMama.crisis)

\* the step appends a crisis template to the message list
AppendsCrisis ==
  /\ Len(messages') > Len(messages)
  /\ IsPrefix(messages, messages')
  /\ messages'[Len(messages')].isBot
  /\ messages'[Len(messages')].text \in CrisisTexts

C8_CrisisWithoutBackend ==
  /\ \A k \in 1..Len(pending) : pending[k].input \notin CrisisInputs
  /\ (lastCall.via # "none" /\ lastCall.input \in CrisisInputs) =>
       /\ lastCall.via = "handleSend"
       /\ lastCall.result = NoResult
       /\ Replied
       /\ lastCall.emergency
       /\ lastCall.text \in Range(responsesMama.crisis)
       /\ replyCount[lastCall.id] = 1
       /\ ~isTyping

\* a crisis message answered while the backend, configured, has not
\* responded to an earlier message
C8_Witness ==
  /\ configured
  /\ lastCall.via = "handleSend"
  /\ lastCall.input \in CrisisInputs
  /\ Len(pending) > 0

\* C9: in the backend-assisted component every accepted message has no
\* bot reply while its backend call is in flight and exactly one afterwards;
\* the reply to a message without a crisis keyword is the backend's text
\* when the backend returned a non-empty text, and otherwise (empty text,
\* error, no model) a template of the set getFallbackResponse selects.
C9_BackendFallback ==
  /\ \A id \in 1..sent :
       replyCount[id] = IF \E k \in 1..Len(pending) : pending[k].id = id THEN 0 ELSE 1
  /\ (lastCall.via # "none" /\ lastCall.input \notin CrisisInputs) =>
       /\ Replied
       /\ IF lastCall.result.kind = "text" /\ lastCall.result.text # ""
            THEN /\ lastCall.via = "getGeminiResponse"
                 /\ lastCall.text = lastCall.result.text
            ELSE /\ lastCall.via = "getFallbackResponse"
                 /\ lastCall.key = getFallbackResponseOf[lastCall.input][lastCall.lq].key
                 /\ lastCall.text \in Range(responsesMama[lastCall.key])

\* the backend call failed, resp. there is no model, and the rule-based
\* reply was appended
C9_Witness ==
  /\ lastCall.via = "getFallbackResponse"
  /\ \/ configured /\ lastCall.result.kind = "error"
     \/ ~configured /\ lastCall.result = NoResult

\* C10: every step leaves the message list a prefix of the new message list.
C10_AppendOnly == [][ IsPrefix(messages, messages') ]_vars

\* the component has left the tree with a reply timer still scheduled
TornDownBeforeReply == ~mounted /\ pending # << >>

\* C11: once the component is torn down, the firing of a reply timer that
\* was scheduled before changes nothing the host can observe: no reply is
\* appended to the message list and onEmergency is not called, whatever the
\* message was.
C11_TeardownDrops ==
  [][ TornDownBeforeReply => (messages' = messages /\ emergencyCount' = emergencyCount) ]_vars

\* the topics in table order, each with its keyword list
TopicTable ==
  << [topic |-> "funfact",  keywords |-> << "fun fact", "fact", "tell me something" >>],
     [topic |-> "sad",      keywords |-> << "sad", "down", "depressed" >>],
     [topic |-> "happy",    keywords |-> << "happy", "good", "great" >>],
     [topic |-> "stressed", keywords |-> << "stress", "overwhelm" >>],
     [topic |-> "anxious",  keywords |-> << "anxious", "anxiety", "worry" >>] >>

\* the positions of the topics with a keyword contained in the lower-cased text
MatchingTopics(t) ==
  {i \in 1..Len(TopicTable) : some(TopicTable[i].keywords, toLowerCase(t))}

\* the earliest-listed matching topic, or default
FirstTopic ==
  [t \in Inputs |->
     IF MatchingTopics(t) = {} THEN "default"
     ELSE TopicTable[CHOOSE i \in MatchingTopics(t) :
                       \A j \in MatchingTopics(t) : i <= j].topic]

\* the inputs that match more than one topic
TieInputs == {t \in Inputs : Cardinality(MatchingTopics(t)) > 1}

\* the reply computation resolved the input as the answer to a pending question
ResolvedAsAnswer(call) ==
  call.lq # "none" /\ call.input \in AffirmativeInputs \cup NegativeInputs

\* C12: a reply computed by getResponse for an input with no crisis keyword
\* that is not resolved as a yes/no answer is a template of the first topic,
\* in the order fun-fact, sad, happy, stressed, anxious, one of whose
\* keywords the lower-cased input contains, and of the default set if no
\* topic matches.
C12_TopicTieBreak ==
  ( /\ lastCall.via = "getResponse"
    /\ lastCall.input \notin CrisisInputs
    /\ ~ResolvedAsAnswer(lastCall) ) =>
     /\ Replied
     /\ lastCall.key = FirstTopic[lastCall.input]
     /\ lastCall.text \in Range(responses[FirstTopic[lastCall.input]])

\* an input that matches the sad and the stressed topic was answered from
\* the sad set
C12_Witness ==
  /\ lastCall.via = "getResponse"
  /\ lastCall.input \in TieInputs
  /\ lastCall.input = "i feel sad and stressed"
  /\ lastCall.key = "sad"
  /\ Replied

\* the template set as a function of the input text and lastQuestion alone
SelectedSet(t, q) ==
  IF t \in CrisisInputs THEN "crisis"
  ELSE IF q # "none" /\ t \in AffirmativeInputs THEN q
  ELSE IF q # "none" /\ t \in NegativeInputs THEN "no" \o q
  ELSE FirstTopic[t]

\* C13: the template set of a reply computed by getResponse is a function
\* of the input text and of the lastQuestion the computation reads: it is
\* the same at every hour of the greeting and for every currentMood and
\* soulNoteContent; in particular a fun-fact request with no pending
\* question is answered from the fun-fact set.
C13_SetDependsOnInputAndQuestion ==
  lastCall.via = "getResponse" =>
     /\ lastCall.key = SelectedSet(lastCall.input, lastCall.lq)
     /\ lastCall.text \in Range(responses[SelectedSet(lastCall.input, lastCall.lq)])
     /\ (lastCall.input = "Sure, tell me a fun fact" /\ lastCall.lq = "none")
          => lastCall.text \in Range(responses.funfact)

\* a fun-fact request and a plain message, no question pending, were
\* answered for a user in a low mood with a journal entry
C13_Witness ==
  /\ lastCall.via = "getResponse"
  /\ lastCall.lq = "none"
  /\ currentMood = "Sad"
  /\ soulNoteContent = "Dear diary"
  /\ \/ lastCall.input = "Sure, tell me a fun fact" /\ lastCall.key = "funfact"
     \/ lastCall.input = "hello" /\ lastCall.key = "default"

\* the calendar: the days of the runs in calendar order, each the day
\* after the one before (2024 is a leap year)
Calendar ==
  << "2024-02-27", "2024-02-28", "2024-02-29", "2024-03-01", "2024-03-02",
     "2024-03-03" >>

\* the position of a day in the calendar
DayIndex(d) == CHOOSE i \in 1..Len(Calendar) : Calendar[i] = d

\* whole calendar days from day a to day b
DaysFrom(a, b) == DayIndex(b) - DayIndex(a)

Last(seq) == seq[Len(seq)]

Greatest(S) == CHOOSE m \in S : \A n \in S : m >= n

\* the streak the user's key holds
Stored == IF streakItem = << >> THEN [current |-> 0, longest |-> 0, lastDate |-> "null"]
          ELSE streakItem[1]

\* the last step was a call of updateStreak on a streak that had a lastDate
CalledOnDated == Len(log) > 0 /\ before.lastDate # "null"

\* C14: the stored streak always has longest >= current, whatever dates
\* updateStreak was called with, in whatever order.
C14_LongestAtLeastCurrent == Stored.longest >= Stored.current

\* a run of three was broken by a gap and a new run has begun
C14_Witness ==
  /\ Len(log) >= 4
  /\ Stored.longest = 3
  /\ Stored.current = 1

\* C15: a call of updateStreak with a date earlier than the stored lastDate
\* leaves current, longest and lastDate as they were.
C15_OutOfOrderIgnored ==
  (CalledOnDated /\ DaysFrom(before.lastDate, Last(log)) < 0) => Stored = before

NonDecreasing(seq) ==
  \A i \in 1..(Len(seq) - 1) : DayIndex(seq[i]) <= DayIndex(seq[i + 1])

\* the calendar positions of the dates of a sequence of calls
Recorded(seq) == {DayIndex(seq[k]) : k \in 1..Len(seq)}

\* the length of the run of consecutive calendar days within S that ends
\* at position i
RECURSIVE RunEndingAt(_, _)
RunEndingAt(i, S) == IF i \notin S THEN 0 ELSE 1 + RunEndingAt(i - 1, S)

\* the consecutive-day count after a sequence of calls
TrueRun(seq) ==
  IF seq = << >> THEN 0 ELSE RunEndingAt(DayIndex(Last(seq)), Recorded(seq))

\* C16: after calls with dates in non-decreasing order, current is the
\* length of the run of consecutive calendar days, among the dates recorded,
\* that ends at lastDate, lastDate is the date of the last call, and longest
\* is the greatest such length over all prefixes of the calls.
C16_TrueConsecutiveCount ==
  NonDecreasing(log) =>
     /\ Stored.current = TrueRun(log)
     /\ Stored.longest = Greatest({TrueRun(SubSeq(log, 1, k)) : k \in 0..Len(log)})
     /\ Len(log) > 0 => Stored.lastDate = Last(log)

\* in-order calls with a repeated day, a run across the leap day and a gap
C16_Witness ==
  /\ NonDecreasing(log)
  /\ Len(log) = 5
  /\ \E i \in 1..4 : log[i] = log[i + 1]
  /\ "2024-02-29" \in Range(log) /\ "2024-03-01" \in Range(log)
  /\ Stored.longest > Stored.current

\* C17: a call of updateStreak with the date that is already the stored
\* lastDate leaves current, longest and lastDate as they were.
C17_SameDayIdempotent ==
  (CalledOnDated /\ Last(log) = before.lastDate) => Stored = before

\* a second call on the same day during a run of two days
C17_Witness ==
  /\ CalledOnDated
  /\ Last(log) = before.lastDate
  /\ before.current = 2
  /\ Stored.current = 2

\* every call is dated the day after the call before it
ConsecutiveDays(seq) ==
  \A i \in 1..(Len(seq) - 1) : DaysFrom(seq[i], seq[i + 1]) = 1

\* C18: from the initial streak, n calls on n consecutive calendar days
\* give current = n and longest >= n; in particular the first call gives
\* current = 1.
C18_ConsecutiveAccumulate ==
  (Len(log) > 0 /\ ConsecutiveDays(log)) =>
     /\ Stored.current = Len(log)
     /\ Stored.longest >= Len(log)

\* five calls on five consecutive days, over the leap day
C18_Witness ==
  /\ Len(log) = 5
  /\ ConsecutiveDays(log)
  /\ log[1] = "2024-02-28"
  /\ Stored.current = 5

\* C19: a call of updateStreak dated more than one day after the stored
\* lastDate sets current to 1 whatever it was, and leaves longest as it was
\* if that was at least 1.
C19_GapResets ==
  (CalledOnDated /\ DaysFrom(before.lastDate, Last(log)) > 1) =>
     /\ Stored.current = 1
     /\ before.longest >= 1 => Stored.longest = before.longest

\* a run of three days followed by a call three days later
C19_Witness ==
  /\ CalledOnDated
  /\ before.current = 3
  /\ DaysFrom(before.lastDate, Last(log)) = 3
  /\ Stored.current = 1
  /\ Stored.longest = 3

\* the streak after two updateStreak calls run one after the other from
\* the initial streak
OneAfterTheOther(d1, d2) ==
  updateStreak(updateStreak([current |-> 0, longest |-> 0, lastDate |-> "null"], d1), d2)

\* both check-in requests were answered 200
BothCompleted == \A r \in Requests : \E q \in requests : q.id = r /\ q.status = 200

\* C20: once two check-in requests of the user have both completed, the
\* stored streak is what the two updateStreak calls give when run one
\* after the other, in one of the two orders.
C20_Serializable ==
  BothCompleted =>
     \E q1, q2 \in requests :
        /\ q1.id # q2.id
        /\ Stored = OneAfterTheOther(q1.date, q2.date)

----------------------------------------------------------------------------
(* Properties of the period tracker *)

\* the last response is that of a period read
IsPeriodRead == response.route \in {"GET /period", "getPeriodData"}

\* the start dates of the records the read was given
ReadDates == {response.stored[i].startDate : i \in 1..Len(response.stored)}

\* the prediction of the read
Prediction == response.body.prediction[1]

\* the day of the year 2024 of each start date
DayOfYear ==
  ("2024-01-01" :> 1) @@ ("2024-01-29" :> 29) @@ ("2024-02-26" :> 57) @@
  ("2024-03-01" :> 61) @@ ("2024-03-09" :> 69) @@ ("2024-03-10" :> 70) @@
  ("2024-05-26" :> 147)

\* the gaps in days between the dates of a set that follow one another, one
\* per later date, that are above 0 and below 60
CycleGaps(D) ==
  { g \in [from : D, to : D] :
      /\ DayOfYear[g.from] < DayOfYear[g.to]
      /\ \A d \in D : ~(DayOfYear[g.from] < DayOfYear[d] /\ DayOfYear[d] < DayOfYear[g.to])
      /\ DayOfYear[g.to] - DayOfYear[g.from] < 60 }

RECURSIVE GapDays(_)
GapDays(G) ==
  IF G = {} THEN 0
  ELSE LET g == CHOOSE x \in G : TRUE IN
       DayOfYear[g.to] - DayOfYear[g.from] + GapDays(G \ {g})

\* n is the mean of the gaps rounded to the nearest integer, a half upwards
IsRoundedMean(n, G) ==
  /\ 2 * n * Cardinality(G) - Cardinality(G) <= 2 * GapDays(G)
  /\ 2 * GapDays(G) < 2 * n * Cardinality(G) + Cardinality(G)

\* C21: the average cycle length of a prediction is the rounded mean of the
\* differences in days between start dates that follow one another, counting
\* only the differences above 0 and below 60 (a gap of 90 days is left out),
\* and 28 when no difference counts
C21_RoundedMeanOfPlausibleGaps ==
  (IsPeriodRead /\ ReadDates # {}) =>
     IF CycleGaps(ReadDates) = {}
       THEN Prediction.averageCycleLength = 28
       ELSE IsRoundedMean(Prediction.averageCycleLength, CycleGaps(ReadDates))

\* a read of three records 28 and 90 days apart gave the average 28
C21_Witness ==
  /\ IsPeriodRead
  /\ ReadDates = {"2024-01-29", "2024-02-26", "2024-05-26"}
  /\ Len(response.stored) = 3
  /\ Prediction.averageCycleLength = 28

\* the latest of a set of start dates
Latest(D) == CHOOSE d \in D : \A e \in D : DayOfYear[e] <= DayOfYear[d]

\* the lengths of the months of 2024
MonthDays == << 31, 29, 31, 30, 31, 30, 31, 31, 30, 31, 30, 31 >>

TwoDigits(x) == IF x < 10 THEN "0" \o ToString(x) ELSE ToString(x)

\* the date of 2024 that is day n counted from the first of month m
RECURSIVE DateFrom(_, _)
DateFrom(m, n) ==
  IF n <= MonthDays[m] THEN "2024-" \o TwoDigits(m) \o "-" \o TwoDigits(n)
  ELSE DateFrom(m + 1, n - MonthDays[m])

\* the calendar date n days after a start date
PlusDays(date, n) == DateFrom(1, DayOfYear[date] + n)

PeriodReadStep ==
  /\ response'.route \in {"GET /period", "getPeriodData"}
  /\ saves' = saves

\* the records the read was given
ReadRecords == {response.stored[i] : i \in 1..Len(response.stored)}

\* C23: the prediction is a function of the set of period records: a read
\* returns the averageCycleLength and nextPeriodDate that every order of the
\* same records gives, and it writes nothing (the stored items, the streak
\* and the check-ins are as before the read)
C23_PredictionOfTheSet ==
  /\ [](IsPeriodRead =>
          \A o \in Orders(ReadRecords) :
             periodResponse(o, timeZone).prediction = response.body.prediction)
  /\ [][ PeriodReadStep =>
          (store' = store /\ streakItem' = streakItem /\ checkins' = checkins) ]_vars

\* a read was given three records in an order that is not the sorted one
C23_Witness ==
  /\ IsPeriodRead
  /\ Len(response.stored) = 3
  /\ response.stored # response.body.periods
  /\ response.stored[1].startDate = "2024-01-29"

\* the period records stored for a user
PeriodRecords(userId) == {i.value : i \in {j \in store' : j.value.userId = userId}}

\* C24: a period read of a user with no stored period record returns an
\* empty list and the prediction null, and a read of a user with at least
\* one stored record returns all of them and a prediction that is not null
C24_NoPredictionIffNoRecord ==
  [][ PeriodReadStep =>
        IF PeriodRecords(response'.userId) = {}
          THEN /\ response'.body.periods = << >>
               /\ response'.body.prediction = << >>
          ELSE /\ Len(response'.body.periods) = Cardinality(PeriodRecords(response'.userId))
               /\ response'.body.prediction # << >> ]_vars

\* a user without records was read while another user, whose id starts with
\* the id of the first, has one
C24_Witness ==
  /\ IsPeriodRead
  /\ response.userId = "u1"
  /\ response.body.prediction = << >>
  /\ \E i \in store : i.value.userId = "u12"

\* a date of 2024 is one to sixty days after a start date
IsLater(date, start) == \E n \in 1..60 : PlusDays(start, n) = date

\* C29: for every non-empty period history the averageCycleLength is an
\* integer from 1 to 59, and the nextPeriodDate is strictly later than the
\* most recent start date
C29_PlausibleAverageLaterDate ==
  (IsPeriodRead /\ ReadDates # {}) =>
     /\ Prediction.averageCycleLength \in 1..59
     /\ IsLater(Prediction.nextPeriodDate, Latest(ReadDates))

\* C30: no two stored period records of a user have the same start date (a
\* save with the start date of a stored record of the user replaces it), and
\* no two neighbours in the sorted list of a read are 0 days apart
C30_OneRecordPerStartDate ==
  /\ \A i, j \in store :
       (i.value.userId = j.value.userId /\ i.value.startDate = j.value.startDate)
         => i = j
  /\ IsPeriodRead =>
       \A k \in 1..(Len(response.body.periods) - 1) :
          DayOfYear[response.body.periods[k].startDate]
            # DayOfYear[response.body.periods[k + 1].startDate]

\* three saves left two records, so one of them replaced a record, and the
\* two were read
C30_Witness ==
  /\ IsPeriodRead
  /\ saves = 3
  /\ Cardinality(store) = 2
  /\ Len(response.body.periods) = 2
  /\ now > 0

----------------------------------------------------------------------------
(* Properties of the journal *)

\* the step answers a journal list request with entries
JournalListStep ==
  /\ response'.route = "POST /journal/list"
  /\ response'.status = 200
  /\ saves' = saves

\* the entries saved so far for a user with a password, as a list shows them
SavedWith(userId, password) ==
  { [id |-> e.id, userId |-> e.userId, title |-> e.title, content |-> e.content] :
      e \in {x \in Range(saved) : x.userId = userId /\ x.password = password} }

\* C25: a journal list request of user U with password P returns exactly the
\* entries of U that were saved with P, none saved with another password,
\* and no returned entry has a password field
C25_ListExactlyOwnEntries ==
  [][ JournalListStep =>
        /\ Range(response'.entries) = SavedWith(response'.userId, response'.password)
        /\ \A e \in Range(response'.entries) : "password" \notin DOMAIN e ]_vars

\* the half of C25 that is about the password: every listed entry is an
\* entry of the user saved with the password of the request, shown without it
ListOnlyOwnEntries ==
  [][ JournalListStep =>
        /\ Range(response'.entries) \subseteq SavedWith(response'.userId, response'.password)
        /\ \A e \in Range(response'.entries) : "password" \notin DOMAIN e ]_vars

----------------------------------------------------------------------------
(* Properties of the chat components, continued *)

\* C26: onEmergency is called only in a step that handles a message whose
\* lower-cased text contains a crisis keyword and answers it from the crisis
\* set, once in that step, and that message is handled in no other step:
\* greetings, yes/no answers, topic replies and default replies never call it
C26_NoFalseTrigger ==
  [][ emergencyCount' # emergencyCount =>
        /\ emergencyCount' = emergencyCount + 1
        /\ lastCall'.via # "none"
        /\ lastCall'.input \in CrisisInputs
        /\ lastCall'.key = "crisis"
        /\ lastCall'.emergency
        /\ replyCount'[lastCall'.id] = 1
        /\ replyCount[lastCall'.id] = 0 ]_vars

\* two messages with a crisis keyword were handled, each calling
\* onEmergency once, the second after a reply that did not call it was due
C26_Witness ==
  /\ emergencyCount = 2
  /\ lastCall.emergency
  /\ lastCall.id = 2
  /\ replyCount[1] = 1
  /\ replyCount[2] = 1

\* the ids of the messages a run can accept
MessageIds == 1..MaxSends

\* the step appends the reply to message id
RepliesTo(id) == replyCount'[id] = replyCount[id] + 1

\* C27: in the timer-based component, while it is mounted, every accepted
\* message eventually has exactly one bot reply, never more, and the replies
\* are appended in the order of the messages they answer, however many
\* messages are sent before earlier timers fire: an accepted message has one
\* reply or its timer is still set, a reply is appended only after the
\* replies to all earlier messages, and again and again no timer is left
C27_EveryMessageOneReplyInOrder ==
  /\ [](\A id \in MessageIds :
         /\ replyCount[id] <= 1
         /\ (id <= sent /\ replyCount[id] = 0) => \E k \in 1..Len(pending) : pending[k].id = id)
  /\ [][ \A id \in MessageIds :
           RepliesTo(id) =>
             /\ Len(messages') > 0
             /\ messages'[Len(messages')].isBot
             /\ \A earlier \in MessageIds : earlier < id => replyCount[earlier] = 1 ]_vars
  /\ []<>(pending = << >>)

\* the second message was sent before the timer of the first fired, and
\* both have their reply
C27_Witness ==
  /\ sent = 2
  /\ pending = << >>
  /\ replyCount[1] = 1
  /\ replyCount[2] = 1
  /\ lastCall.id = 2
  /\ Len(messages) >= 5
  /\ messages[Len(messages) - 1].isBot
  /\ ~messages[Len(messages) - 2].isBot
  /\ ~messages[Len(messages) - 3].isBot

\* replies are appended in the order of the messages they answer
RepliesInOrder ==
  [][ \A id \in MessageIds :
        RepliesTo(id) => \A earlier \in MessageIds : earlier < id => replyCount[earlier] = 1 ]_vars

\* the typing indicator is on while a sent message awaits its reply
TypingWhileAwaited == [](pending # << >> => isTyping)

\* C28: in the backend-assisted component, when two messages are sent before
\* the first backend call has returned, the replies are appended in the
\* order of the messages they answer, and isTyping is true as long as a sent
\* message awaits its reply
C28_BackendRepliesInOrderAndTyping == RepliesInOrder /\ TypingWhileAwaited


====
